---- MODULE Spec2Model ----
(***************************************************************************)
(* A model of xmod (src/xmod.py): the function that replaces an entry of   *)
(* sys.modules by an instance of a synthesized class whose members are     *)
(* taken from an extension object and whose attribute fallbacks go to the  *)
(* original entry.                                                         *)
(*                                                                         *)
(* Python objects are modelled by what xmod and the attribute protocol     *)
(* look at: a module is its attribute dictionary; a proxy is the member    *)
(* mapping of its class plus its (instance) dictionary; an extension is    *)
(* its kind (function, class, instance) and what dir()/getattr() give.     *)
(* Attribute values are plain data or the callables xmod builds.           *)
(*                                                                         *)
(* The omit arguments tried are None, a superset of xmod.OMIT and the      *)
(* empty set; the properties arguments are None and a set of plain names.  *)
(* Reading an attribute and calling the registry entry change nothing, so  *)
(* they are the operators Read and Call, evaluated in the current state.   *)
(*                                                                         *)
(* Spec      direct calls under a registered name, and attribute writes.   *)
(* SpecCalls calls without an extension, calls of the callable such a call *)
(*           returns, and direct calls under a name that is not registered.*)
(***************************************************************************)
EXTENDS Integers, Sequences, FiniteSets, TLC

VARIABLES registry,   \* sys.modules: module name -> object id
          heap,       \* the objects: modules and proxies, by id
          partial,    \* the functools.partial object of the last deferred call
          asked,      \* the arguments the caller gave to that deferred call
          writes,     \* number of attribute writes performed so far
          last        \* the last operation, its arguments and its outcome

vars == <<registry, heap, partial, asked, writes, last>>

(* ------------------------------ bounds --------------------------------- *)

MaxProxies == 2
MaxWrites == 1

(* ----------------------------- constants ------------------------------- *)

None == "None"

MODULE_PROPERTIES ==
    {"__all__", "__cached__", "__doc__", "__file__", "__loader__",
     "__name__", "__package__", "__path__", "__spec__"}

OMIT ==
    {"__class__", "__getattr__", "__getattribute__", "__init__",
     "__init_subclass__", "__new__", "__setattr__"}

EXTENSION_ATTRIBUTE == "_xmod_extension"
WRAPPED_ATTRIBUTE == "_xmod_wrapped"

(* ------------------------------ values --------------------------------- *)

\* Every Python value of the model has the same shape:
\*   k  what it is            v  the datum of a plain value
\*   e  an extension          a  an attribute name of that extension
\*   o  a heap object         w  TRUE when it is method(f), the forwarding
\*   args  the arguments a call result was computed from
Val(k, v, e, a, o, w, args) ==
    [k |-> k, v |-> v, e |-> e, a |-> a, o |-> o, w |-> w, args |-> args]

NoValue == Val("none", "", 0, "", 0, FALSE, <<>>)
Data(s) == Val("data", s, 0, "", 0, FALSE, <<>>)
ExtRef(e) == Val("ext", "", e, "", 0, FALSE, <<>>)
ExtAttr(e, a) == Val("extattr", "", e, a, 0, FALSE, <<>>)
ObjRef(o) == Val("obj", "", 0, "", o, FALSE, <<>>)
GetAttributeOf(o) == Val("getattribute", "", 0, "", o, FALSE, <<>>)
SetAttrOf(o) == Val("setattr", "", 0, "", o, FALSE, <<>>)
PartialRef == Val("partial", "", 0, "", 0, FALSE, <<>>)
\* what calling the extension e (a = "") or its attribute a returns
Ret(e, a, args) == Val("ret", "", e, a, 0, FALSE, args)

EmptyMap == [k \in {} |-> NoValue]

\* an optional set argument (properties, omit)
NoneArg == [none |-> TRUE, s |-> {}]
Some(S) == [none |-> FALSE, s |-> S]

(* ---------------------------- extensions ------------------------------- *)

\* 1: a function F, 2: a class K, 3: an instance I of a class with
\* __getattr__; all three defined in module "m".
Extensions == {1, 2, 3}

ExtKind(e) == CASE e = 1 -> "function" [] e = 2 -> "class" [] OTHER -> "instance"

\* extension.__module__
ExtModule(e) == "m"

\* getattr(extension, attr) for attr in dir(extension)
ExtAttrs(e) ==
    CASE e = 1 ->
           ("__doc__" :> Data("fdoc")) @@
           ("__call__" :> ExtAttr(1, "__call__")) @@
           ("__new__" :> ExtAttr(1, "__new__")) @@
           ("__setattr__" :> ExtAttr(1, "__setattr__"))
      [] e = 2 ->
           ("__doc__" :> Data("kdoc")) @@ ("x" :> Data("kx")) @@
           ("f" :> ExtAttr(2, "f")) @@
           ("__new__" :> ExtAttr(2, "__new__")) @@
           ("__setattr__" :> ExtAttr(2, "__setattr__"))
      [] OTHER ->
           ("__doc__" :> Data("idoc")) @@ ("x" :> Data("ix")) @@
           ("f" :> ExtAttr(3, "f")) @@
           ("__new__" :> ExtAttr(3, "__new__")) @@
           ("__getattr__" :> ExtAttr(3, "__getattr__")) @@
           ("__setattr__" :> ExtAttr(3, "__setattr__"))

dir(e) == DOMAIN ExtAttrs(e)

callable(value) ==
    \/ value.w
    \/ value.k \in {"extattr", "getattribute", "setattr", "partial"}
    \/ value.k = "ext" /\ ExtKind(value.e) \in {"function", "class"}

is_type(e) == ExtKind(e) = "class"

(* ------------------------- outcomes of a step -------------------------- *)

Ok(val) == [ok |-> TRUE, val |-> val, exc |-> "", by |-> 0]
Raise(exc, by) == [ok |-> FALSE, val |-> NoValue, exc |-> exc, by |-> by]

(* ----------------------- the attribute protocol ------------------------ *)

\* types.ModuleType.__getattribute__: the module's dictionary, or the
\* module's own AttributeError
ModuleGetAttr(hp, o, name) ==
    IF name \in DOMAIN hp[o].attrs
    THEN Ok(hp[o].attrs[name])
    ELSE Raise("AttributeError", o)

\* object.__getattribute__ on an instance of a synthesized class: the
\* instance dictionary, then the class members; it never consults __getattr__
GenericGetAttr(hp, o, name) ==
    IF name \in DOMAIN hp[o].attrs
    THEN Ok(hp[o].attrs[name])
    ELSE IF name \in DOMAIN hp[o].members
         THEN Ok(hp[o].members[name])
         ELSE Raise("AttributeError", o)

\* calling the bound method original.__getattribute__ taken at line 170
CallGetAttribute(hp, o, name) ==
    IF hp[o].type = "module"
    THEN ModuleGetAttr(hp, o, name)
    ELSE GenericGetAttr(hp, o, name)

\* lines 153-154, the wrapper method(f) returns: the arguments f is called
\* with when the wrapper is called on the instance self with args
wrapped_passes_self(self, args) == <<ObjRef(self)>> \o args
wrapped(self, args) == args

\* method(f): the value stored in the class is the forwarding wrapper
method(f) == [f EXCEPT !.w = TRUE]

\* calling a callable the model knows with the arguments args
CallTarget(hp, f, args) ==
    CASE f.k = "ext" /\ callable(ExtRef(f.e)) -> Ok(Ret(f.e, "", args))
      [] f.k = "extattr" -> Ok(Ret(f.e, f.a, args))
      [] f.k = "getattribute" /\ Len(args) = 1 ->
             CallGetAttribute(hp, f.o, args[1].v)
      [] OTHER -> Raise("TypeError", 0)

\* calling a member found on the class of the instance self
CallMember(hp, f, self, args) ==
    IF f.w
    THEN CallTarget(hp, f, wrapped(self, args))
    ELSE Raise("TypeError", self)

\* getattr(obj, name): for a proxy the generic lookup, and the class's
\* __getattr__ when that lookup fails
GetAttr(hp, o, name) ==
    IF hp[o].type = "module"
    THEN ModuleGetAttr(hp, o, name)
    ELSE LET r == GenericGetAttr(hp, o, name)
         IN  IF r.ok \/ "__getattr__" \notin DOMAIN hp[o].members
             THEN r
             ELSE CallMember(hp, hp[o].members["__getattr__"], o,
                             <<Data(name)>>)

\* setattr(obj, name, value): the heap afterwards.  A class that defines
\* __setattr__ has it called for every write; without one the write goes to
\* the instance dictionary.
RECURSIVE SetAttr(_, _, _, _)
SetAttr(hp, o, name, value) ==
    IF hp[o].type = "module" \/ "__setattr__" \notin DOMAIN hp[o].members
    THEN [hp EXCEPT ![o].attrs = (name :> value) @@ @]
    ELSE LET m == hp[o].members["__setattr__"]
             args == wrapped(o, <<Data(name), value>>)
         IN  IF m.w /\ m.k = "setattr" /\ Len(args) = 2
             THEN SetAttr(hp, m.o, args[1].v, args[2])
             ELSE hp

(* ------------------------------- xmod ---------------------------------- *)

\* line 149: the two bookkeeping entries
bookkeeping(extension, original) ==
    (EXTENSION_ATTRIBUTE :> ExtRef(extension)) @@
    (WRAPPED_ATTRIBUTE :> ObjRef(original))

\* lines 158-165: the members taken from the extension
copied(extension, omit) ==
    [attr \in {a \in dir(extension) :
                 /\ a \notin omit
                 /\ ~callable(ExtAttrs(extension)[a]) \/ ~is_type(extension)}
       |-> LET value == ExtAttrs(extension)[attr]
           IN  IF ~callable(value) THEN value ELSE method(value)]

\* lines 167-168: the call hook of a callable extension
callhook(extension) ==
    IF callable(ExtRef(extension))
    THEN "__call__" :> method(ExtRef(extension))
    ELSE EmptyMap

\* lines 170-171: the two fallback accessors
fallbacks_without_getattr(original) ==
    "__setattr__" :> method(SetAttrOf(original))
fallbacks_without_setattr(original) ==
    "__getattr__" :> method(GetAttributeOf(original))
fallbacks(original) ==
    ("__getattr__" :> method(GetAttributeOf(original))) @@
    ("__setattr__" :> method(SetAttrOf(original)))

\* lines 173-177: the properties the original has, with their values
preserved(hp, original, properties) ==
    [k \in {p \in properties : GetAttr(hp, original, p).ok}
       |-> GetAttr(hp, original, k).val]

\* the order of the assignments to members, lines 149-177: a later
\* assignment replaces an earlier one (the left operand of @@ wins)
assign_properties_first(book, ext, call, fall, props) ==
    fall @@ call @@ ext @@ props @@ book
assign(book, ext, call, fall, props) ==
    props @@ fall @@ call @@ ext @@ book

members_of(hp, extension, original, properties, omit) ==
    assign(bookkeeping(extension, original), copied(extension, omit),
           callhook(extension), fallbacks(original),
           preserved(hp, original, properties))

\* proxy_class(): type.__call__ calls the class's __new__; a wrapped
\* __new__ of the extension is called without arguments and raises
instantiation_fails(members) ==
    "__new__" \in DOMAIN members /\ members["__new__"].w

\* line 180, the write to sys.modules
store_everywhere(reg, name, id) == [n \in DOMAIN reg |-> id]
store(reg, name, id) == [reg EXCEPT ![name] = id]

Outcome(reg, hp, part, r) ==
    [registry |-> reg, heap |-> hp, partial |-> part, r |-> r]

\* lines 179-180: the class is made and instantiated, then stored
install_before_instantiate(reg, hp, part, extension, name, members) ==
    Outcome(store(reg, name, Len(hp) + 1),
            Append(hp, [type |-> "proxy", name |-> name,
                        attrs |-> EmptyMap, members |-> members]),
            part,
            IF instantiation_fails(members)
            THEN Raise("TypeError", 0)
            ELSE Ok(ExtRef(extension)))
install(reg, hp, part, extension, name, members) ==
    IF instantiation_fails(members)
    THEN Outcome(reg, hp, part, Raise("TypeError", 0))
    ELSE Outcome(store(reg, name, Len(hp) + 1),
                 Append(hp, [type |-> "proxy", name |-> name,
                             attrs |-> EmptyMap, members |-> members]),
                 part, Ok(ExtRef(extension)))

\* functools.partial(xmod, name=name, properties=properties, omit=omit)
functools_partial_without_omit(name, properties, omit) ==
    [live |-> TRUE, name |-> name, properties |-> properties,
     omit |-> NoneArg]
functools_partial(name, properties, omit) ==
    [live |-> TRUE, name |-> name, properties |-> properties, omit |-> omit]

NoPartial == [live |-> FALSE, name |-> None, properties |-> NoneArg,
              omit |-> NoneArg]

\* lines 144-146: the values used when an argument is None
NameUsed(e, n) == IF n = None THEN ExtModule(e) ELSE n
PropertiesUsed(p) == IF p.none THEN MODULE_PROPERTIES ELSE p.s
OmitUsed(o) == IF o.none THEN OMIT ELSE o.s

\* xmod(extension, name, properties, omit); extension 0 is None
xmod(reg, hp, part, extension, name, properties, omit) ==
    IF extension = 0
    THEN IF name = None /\ omit.none /\ properties.none
         THEN Outcome(reg, hp, part, Raise("AssertionError", 0))
         ELSE Outcome(reg, hp, functools_partial(name, properties, omit),
                      Ok(PartialRef))
    ELSE IF NameUsed(extension, name) \notin DOMAIN reg
         THEN Outcome(reg, hp, part, Raise("KeyError", 0))
         ELSE install(reg, hp, part, extension, NameUsed(extension, name),
                      members_of(hp, extension,
                                 reg[NameUsed(extension, name)],
                                 PropertiesUsed(properties), OmitUsed(omit)))

(* --------------------------- the state machine ------------------------- *)

\* the arguments the operations are tried with
NameArgs == {None, "m", "ghost"}
PropertiesArgs == {NoneArg, Some({"x", "a"})}
OmitArgs == {NoneArg, Some(OMIT \cup {"__call__", "x"}), Some({})}
ReadNames == {"__doc__", "x", "f", "foo", "a", "late"}
WriteNames == {"a", "x"}
LateNames == {"late"}
WriteValues == {Data("v1")}
CallArgs == {<<>>, <<Data("p")>>, <<Data("p"), Data("q")>>}

Modules == {1, 2}

Op(op, e, n, p, o, a, v, r) ==
    [op |-> op, e |-> e, n |-> n, p |-> p, o |-> o, a |-> a, v |-> v,
     r |-> r]

Init ==
    /\ registry = ("m" :> 1) @@ ("other" :> 2)
    /\ heap = << [type |-> "module", name |-> "m",
                  attrs |-> ("__doc__" :> Data("mdoc")) @@
                            ("foo" :> Data("mfoo")) @@ ("x" :> Data("mx")),
                  members |-> EmptyMap],
                 [type |-> "module", name |-> "other",
                  attrs |-> ("__doc__" :> Data("odoc")),
                  members |-> EmptyMap] >>
    /\ partial = NoPartial
    /\ asked = [name |-> None, properties |-> NoneArg, omit |-> NoneArg]
    /\ writes = 0
    /\ last = Op("init", 0, None, NoneArg, NoneArg, "", NoValue, Ok(NoValue))

\* xmod(E, n, p, o), the direct call
Install(e, n, p, o) ==
    /\ Len(heap) < Cardinality(Modules) + MaxProxies
    /\ LET out == xmod(registry, heap, partial, e, n, p, o)
       IN  /\ registry' = out.registry
           /\ heap' = out.heap
           /\ partial' = out.partial
           /\ last' = Op("install", e, n, p, o, "", NoValue, out.r)
    /\ UNCHANGED <<asked, writes>>

\* xmod(name=n, properties=p, omit=o), the call without an extension
Deferred(n, p, o) ==
    /\ LET out == xmod(registry, heap, partial, 0, n, p, o)
       IN  /\ registry' = out.registry
           /\ heap' = out.heap
           /\ partial' = out.partial
           /\ asked' = IF out.r.ok
                       THEN [name |-> n, properties |-> p, omit |-> o]
                       ELSE asked
           /\ last' = Op("deferred", 0, n, p, o, "", NoValue, out.r)
    /\ UNCHANGED writes

\* g(E), g the callable a deferred call returned: xmod(E, **keywords)
CallPartial(e) ==
    /\ partial.live
    /\ Len(heap) < Cardinality(Modules) + MaxProxies
    /\ LET out == xmod(registry, heap, partial, e, partial.name,
                       partial.properties, partial.omit)
       IN  /\ registry' = out.registry
           /\ heap' = out.heap
           /\ partial' = out.partial
           /\ last' = Op("partial_call", e, partial.name, partial.properties,
                         partial.omit, "", NoValue, out.r)
    /\ UNCHANGED <<asked, writes>>

\* sys.modules[n].a = v
ProxyWrite(n, a, v) ==
    /\ n \in DOMAIN registry
    /\ writes < MaxWrites
    /\ heap' = SetAttr(heap, registry[n], a, v)
    /\ writes' = writes + 1
    /\ last' = Op("write", 0, n, NoneArg, NoneArg, a, v, Ok(NoValue))
    /\ UNCHANGED <<registry, partial, asked>>

\* the module's own code binds a global: M.a = v
ModuleWrite(m, a, v) ==
    /\ writes < MaxWrites
    /\ heap' = SetAttr(heap, m, a, v)
    /\ writes' = writes + 1
    /\ last' = Op("module_write", 0, heap[m].name, NoneArg, NoneArg, a, v,
                  Ok(NoValue))
    /\ UNCHANGED <<registry, partial, asked>>

\* sys.modules[n].a, read in the current state
Read(n, a) == GetAttr(heap, registry[n], a)

\* sys.modules[n](*args), called in the current state: the call slot of the
\* type, which a module does not have
Call(n, args) ==
    IF "__call__" \in DOMAIN heap[registry[n]].members
    THEN CallMember(heap, heap[registry[n]].members["__call__"],
                    registry[n], args)
    ELSE Raise("TypeError", registry[n])

\* the object registered under n is a proxy / a proxy put over a real module
IsProxy(hp, reg, n) == n \in DOMAIN reg /\ hp[reg[n]].type = "proxy"
OriginalOf(hp, o) == hp[o].members[WRAPPED_ATTRIBUTE].o
ExtensionOf(hp, o) == hp[o].members[EXTENSION_ATTRIBUTE].e
OverModule(hp, reg, n) ==
    IsProxy(hp, reg, n) /\ hp[OriginalOf(hp, reg[n])].type = "module"

\* Direct calls with a registered name and omit sets that keep __new__
\* omitted, and the attribute writes that follow them.
Next ==
    \/ \E e \in Extensions, p \in PropertiesArgs,
          o \in OmitArgs \ {Some({})} : Install(e, "m", p, o)
    \/ \E a \in WriteNames, v \in WriteValues : ProxyWrite("m", a, v)
    \/ \E a \in LateNames, v \in WriteValues : ModuleWrite(1, a, v)

Spec == Init /\ [][Next]_vars

\* Every way of calling xmod: without an extension, through the callable
\* that returns, and directly with a name that is not registered.
NextCalls ==
    \/ \E n \in NameArgs, p \in PropertiesArgs, o \in OmitArgs :
          Deferred(n, p, o)
    \/ \E e \in Extensions : CallPartial(e)
    \/ \E e \in Extensions : Install(e, "ghost", NoneArg, NoneArg)

SpecCalls == Init /\ [][NextCalls]_vars

(* ------------------------------- claims -------------------------------- *)

\* a step of xmod(E, ...) that succeeded: what it did to registry and heap
Installed(n) ==
    /\ DOMAIN registry' = DOMAIN registry
    /\ \A m \in DOMAIN registry \ {n} : registry'[m] = registry[m]
    /\ registry'[n] \notin 1..Len(heap)
    /\ registry'[n] \in 1..Len(heap')
    /\ heap'[registry'[n]].type = "proxy"
    /\ \A o \in 1..Len(heap) : heap'[o] = heap[o]

\* C1: a direct call xmod(E, N) with N registered succeeds, replaces exactly
\* the entry of N by a new proxy object, leaves every other entry and every
\* existing object (the original module's attributes included) as they were,
\* and returns E.
C1_DirectCallReplacesOneEntry ==
    [][(last'.op = "install" /\ last'.n \in DOMAIN registry) =>
          /\ (last'.p.none /\ last'.o.none) => last'.r.ok
          /\ last'.r.ok => /\ Installed(last'.n)
                           /\ last'.r.val = ExtRef(last'.e)]_vars

C1_Witness ==
    /\ last.op = "install" /\ last.r.ok /\ last.p.none /\ last.o.none
    /\ OverModule(heap, registry, last.n)
    /\ registry["other"] = 2

\* C2: when the extension installed at N is callable (a function or a
\* class), calling the registry entry with any arguments returns what the
\* extension returns for exactly those arguments.
C2_CallForwardsToExtension ==
    \A n \in DOMAIN registry :
        (IsProxy(heap, registry, n)
            /\ callable(ExtRef(ExtensionOf(heap, registry[n]))))
        => \A args \in CallArgs :
              Call(n, args) = Ok(Ret(ExtensionOf(heap, registry[n]), "", args))

C2_Witness ==
    /\ IsProxy(heap, registry, "m")
    /\ ExtKind(ExtensionOf(heap, registry["m"])) = "class"
    /\ Call("m", <<Data("p")>>).ok

\* the attributes the object o has itself: a module's dictionary; a proxy's
\* own dictionary and the members of its class
OwnAttrs(hp, o) ==
    IF hp[o].type = "module" THEN hp[o].attrs
    ELSE hp[o].attrs @@ hp[o].members

\* C3: a read through a registry entry that is a proxy, its original being
\* M: a name that is a member of the proxy gives the member; otherwise a name
\* present on M gives M's current value; otherwise the read fails with M's
\* own AttributeError.
C3_ReadOrder ==
    \A n \in DOMAIN registry :
        IsProxy(heap, registry, n) =>
            LET proxy == heap[registry[n]]
                M == OriginalOf(heap, registry[n])
            IN  \A a \in ReadNames :
                    Read(n, a) =
                        IF a \in DOMAIN proxy.members
                        THEN Ok(proxy.members[a])
                        ELSE IF a \in DOMAIN OwnAttrs(heap, M)
                             THEN Ok(OwnAttrs(heap, M)[a])
                             ELSE Raise("AttributeError", M)

C3_Witness ==
    /\ OverModule(heap, registry, "m")
    /\ last.op = "module_write" /\ last.a = "late"
    /\ Read("m", "late") = Ok(last.v)
    /\ Read("m", "x").ok /\ Read("m", "x").val # heap[1].attrs["x"]
    /\ ~Read("m", "a").ok

\* C4: for a proxy installed over a module M, writing through the proxy a
\* name that neither the proxy nor M has stores the value on M, stores
\* nothing on the proxy, and a read through the proxy then gives the value.
C4_UnknownWriteReachesModule ==
    [][(/\ last'.op = "write"
        /\ OverModule(heap, registry, last'.n)
        /\ ~Read(last'.n, last'.a).ok) =>
          LET M == OriginalOf(heap, registry[last'.n])
          IN  /\ last'.a \in DOMAIN heap'[M].attrs
              /\ heap'[M].attrs[last'.a] = last'.v
              /\ heap'[registry[last'.n]] = heap[registry[last'.n]]
              /\ heap'[registry[last'.n]].attrs = EmptyMap
              /\ GetAttr(heap', registry'[last'.n], last'.a) = Ok(last'.v)]_vars

C4_Witness ==
    /\ last.op = "write" /\ last.a = "a"
    /\ OverModule(heap, registry, "m")
    /\ "a" \notin DOMAIN heap[registry["m"]].members
    /\ heap[1].attrs["a"] = last.v
    /\ Read("m", "a") = Ok(last.v)

\* C5: a call without an extension that is given a name, properties or omit
\* changes neither registry nor heap and returns a callable g; g(E) then
\* leaves the registry and the heap as the direct call with the arguments the
\* caller gave would, and returns what it returns: E when it succeeds.
C5_DeferredEqualsDirect ==
    [][/\ (last'.op = "deferred" /\ last'.r.ok) =>
             /\ registry' = registry /\ heap' = heap
             /\ callable(last'.r.val) /\ partial'.live
       /\ last'.op = "partial_call" =>
             LET direct == xmod(registry, heap, partial, last'.e, asked.name,
                                asked.properties, asked.omit)
             IN  /\ registry' = direct.registry
                 /\ heap' = direct.heap
                 /\ last'.r = direct.r
                 /\ last'.r.ok => last'.r.val = ExtRef(last'.e)]_vars

C5_Witness ==
    /\ last.op = "partial_call" /\ last.r.ok
    /\ asked.name = None /\ ~asked.omit.none /\ ~asked.properties.none
    /\ IsProxy(heap, registry, "m")
    /\ "x" \notin OmitUsed(asked.omit)
    /\ ExtensionOf(heap, registry["m"]) = 2
    /\ "__call__" \in DOMAIN heap[registry["m"]].members

\* C6: a call that fails leaves the registry (and every object) as it was;
\* a call with no extension and no name, properties or omit fails with an
\* AssertionError, a call whose name is not registered with a KeyError.
C6_FailureLeavesRegistry ==
    [][/\ ~last'.r.ok => (registry' = registry /\ heap' = heap)
       /\ (/\ last'.op = "deferred"
           /\ last'.n = None /\ last'.p.none /\ last'.o.none)
          => (~last'.r.ok /\ last'.r.exc = "AssertionError")
       /\ (/\ last'.op \in {"install", "partial_call"}
           /\ NameUsed(last'.e, last'.n) \notin DOMAIN registry)
          => (~last'.r.ok /\ last'.r.exc = "KeyError")]_vars

C6_Witness ==
    /\ last.op = "partial_call" /\ ~last.r.ok /\ last.r.exc = "TypeError"
    /\ IsProxy(heap, registry, "m")
    /\ Len(heap) < Cardinality(Modules) + MaxProxies

\* what the extension e gives for the name a, as it is or wrapped
FromExtension(e, a) ==
    {method(ExtRef(e))}
    \cup (IF a \in dir(e) THEN {ExtAttrs(e)[a], method(ExtAttrs(e)[a])}
          ELSE {})

\* C7: after xmod(E, N, omit=O) no name of O (None: xmod.OMIT) is a member of
\* the proxy that is taken from the extension or forwards to it.
C7_OmittedNeverFromExtension ==
    (last.op = "install" /\ last.r.ok) =>
        \A a \in OmitUsed(last.o) :
            a \in DOMAIN heap[registry[last.n]].members =>
                heap[registry[last.n]].members[a]
                    \notin FromExtension(last.e, a)

\* C8: after an installation, every name k of the properties to preserve
\* that the original has reads through the registry entry as the original's
\* value at that time, whatever the extension defines; a name k the original
\* does not have is a member only if the extension or a hook provides it.
C8_PropertiesPreserved ==
    [][(last'.op = "install" /\ last'.r.ok) =>
          LET n == last'.n
              e == last'.e
          IN  \A k \in PropertiesUsed(last'.p) :
                  IF GetAttr(heap, registry[n], k).ok
                  THEN GetAttr(heap', registry'[n], k)
                           = GetAttr(heap, registry[n], k)
                  ELSE k \in DOMAIN heap'[registry'[n]].members =>
                           k \in dir(e) \cup {"__call__", "__getattr__",
                                              "__setattr__"}]_vars

C8_Witness ==
    /\ last.op = "install" /\ last.r.ok /\ ~last.p.none
    /\ "x" \in dir(last.e) /\ "x" \notin OmitUsed(last.o)
    /\ "x" \in PropertiesUsed(last.p)
    /\ Read(last.n, "x") = Ok(heap[1].attrs["x"])
    /\ "a" \notin DOMAIN heap[registry[last.n]].members

\* C9: writing through the proxy a name that is already a member of the
\* proxy does not reach the original (no object of the heap changes) and a
\* read of the name through the proxy then gives the written value.
C9_MemberWriteStaysOffModule ==
    [][(/\ last'.op = "write"
        /\ IsProxy(heap, registry, last'.n)
        /\ last'.a \in DOMAIN heap[registry[last'.n]].members) =>
          /\ \A o \in 1..Len(heap) :
                 heap[o].type = "module" => heap'[o] = heap[o]
          /\ GetAttr(heap', registry'[last'.n], last'.a) = Ok(last'.v)]_vars

\* C10: after one or more installations under N, a name only the first,
\* real module has ("foo" of module 1) reads through the registry entry as
\* the module's value, and an unknown name written through the registry
\* entry reads back through it as the written value.
C10_InstallationComposes ==
    [][/\ IsProxy(heap', registry', "m") =>
             GetAttr(heap', registry'["m"], "foo") = Ok(heap'[1].attrs["foo"])
       /\ (/\ last'.op = "write"
           /\ IsProxy(heap, registry, last'.n)
           /\ ~Read(last'.n, last'.a).ok) =>
             GetAttr(heap', registry'[last'.n], last'.a) = Ok(last'.v)]_vars

====
